---- MODULE Spec2Model ----
(***************************************************************************)
(* Verification model of the Desmos-Draw symbolic expression engine and   *)
(* its function plotter (expressions.ts and MathFunctionGraphic of        *)
(* draw.ts), of the parabola built on them, of DesmosDraw with its        *)
(* control points and mouse listeners, and of the frame loop (main.ts).   *)
(*                                                                         *)
(* Numbers.  A JavaScript number is modelled as a normalised fraction     *)
(* [def, n, d]: d > 0 is the finite number n/d (gcd(n, d) = 1), d = 0 is  *)
(* a non-finite number (n = 1 Infinity, n = -1 -Infinity, n = 0 NaN).     *)
(* def = FALSE is the JavaScript value `undefined`, which Value uses as   *)
(* the "undefined" marker.  -0 is identified with 0: the engine only      *)
(* applies ===, <, <=, >= and sqrt to it, which do not tell them apart.   *)
(* Math.sqrt of a number that is not a perfect square is rounded down to  *)
(* a multiple of 1/(d * SqrtScale).                                        *)
(***************************************************************************)
EXTENDS Integers, Sequences, FiniteSets, TLC

\* ------------------------------------------------------------------ bounds
MaxNum == 4
MaxDen == 2
SqrtScale == 4
MaxSamples == 14
MaxCoord == 3

\* ----------------------------------------------------------------- numbers
Abs(i) == IF i < 0 THEN -i ELSE i

RECURSIVE Gcd(_, _)
Gcd(a, b) == IF b = 0 THEN a ELSE Gcd(b, a % b)

Num(n, d) ==
    IF d = 0 THEN [def |-> TRUE, n |-> (IF n > 0 THEN 1 ELSE IF n < 0 THEN -1 ELSE 0), d |-> 0]
    ELSE LET g == Gcd(Abs(n), Abs(d))
             sg == IF d < 0 THEN -1 ELSE 1
         IN  [def |-> TRUE, n |-> sg * (n \div g), d |-> sg * (d \div g)]

Whole(i) == Num(i, 1)
undefined == [def |-> FALSE, n |-> 0, d |-> 1]
NaN == [def |-> TRUE, n |-> 0, d |-> 0]
Infinity == [def |-> TRUE, n |-> 1, d |-> 0]
NegInfinity == [def |-> TRUE, n |-> -1, d |-> 0]

IsNaN(p) == p.d = 0 /\ p.n = 0
IsFinite(p) == p.d > 0

\* a + b on JavaScript numbers
NumAdd(p, q) ==
    IF IsNaN(p) \/ IsNaN(q) THEN NaN
    ELSE IF p.d = 0 /\ q.d = 0 THEN (IF p.n = q.n THEN p ELSE NaN)
    ELSE IF p.d = 0 THEN p
    ELSE IF q.d = 0 THEN q
    ELSE Num(p.n * q.d + q.n * p.d, p.d * q.d)

\* a / b on JavaScript numbers
NumDiv(p, q) ==
    IF IsNaN(p) \/ IsNaN(q) THEN NaN
    ELSE IF p.d = 0 /\ q.d = 0 THEN NaN
    ELSE IF p.d = 0 THEN (IF q.n < 0 THEN Num(-p.n, 0) ELSE p)
    ELSE IF q.d = 0 THEN Whole(0)
    ELSE IF q.n = 0 THEN Num(p.n, 0)
    ELSE Num(p.n * q.d, p.d * q.n)

\* a < b, a <= b on JavaScript numbers (false when either side is NaN)
NumLess(p, q) ==
    /\ ~IsNaN(p)
    /\ ~IsNaN(q)
    /\ IF p.d = 0 /\ q.d = 0 THEN p.n < q.n
       ELSE IF p.d = 0 THEN p.n < 0
       ELSE IF q.d = 0 THEN q.n > 0
       ELSE p.n * q.d < q.n * p.d

NumLeq(p, q) == ~IsNaN(p) /\ ~IsNaN(q) /\ (p = q \/ NumLess(p, q))

\* a * b on JavaScript numbers
NumMul(p, q) ==
    IF IsNaN(p) \/ IsNaN(q) THEN NaN
    ELSE IF p.d = 0 \/ q.d = 0
         THEN (IF p.n = 0 \/ q.n = 0 THEN NaN
               ELSE Num((IF p.n > 0 THEN 1 ELSE -1) * (IF q.n > 0 THEN 1 ELSE -1), 0))
    ELSE Num(p.n * q.n, p.d * q.d)

\* a - b on JavaScript numbers
NumSub(p, q) == NumAdd(p, NumMul(q, Whole(-1)))

ISqrt(m) == CHOOSE r \in 0..m : r * r <= m /\ (r + 1) * (r + 1) > m

\* Math.sqrt
NumSqrt(p) ==
    IF IsNaN(p) THEN NaN
    ELSE IF p.d = 0 THEN (IF p.n > 0 THEN Infinity ELSE NaN)
    ELSE IF p.n < 0 THEN NaN
    ELSE Num(ISqrt(p.n * p.d * SqrtScale * SqrtScale), p.d * SqrtScale)

\* ------------------------------------------------------------- expressions
Variable(name) == [k |-> "Variable", name |-> name]
Value(v) == [k |-> "Value", num |-> v]
Add(a, b) == [k |-> "Add", a |-> a, b |-> b]
Divide(a, b) == [k |-> "Divide", a |-> a, b |-> b]
PrincipalSqrt(v) == [k |-> "PrincipalSqrt", value |-> v]
Sqrt(v) == [k |-> "Sqrt", value |-> v]
\* Extent without bi_sort
ExtentUnsorted(a, b) == [min |-> a, max |-> b]

Extent(a, b) == IF NumLess(a, b) THEN [min |-> a, max |-> b] ELSE [min |-> b, max |-> a]
RestrictTo(v, range) == [k |-> "RestrictTo", value |-> v, range |-> range]

UNDEFINED == Value(undefined)
ONE == Value(Whole(1))
NEGATIVE_ONE == Value(Whole(-1))

Multiply(a, b) == Divide(a, Divide(ONE, b))

\* Subtract multiplying by Value.ONE instead of Value.NEGATIVE_ONE
SubtractNoNegation(a, b) == Add(a, Multiply(b, ONE))

Subtract(a, b) == Add(a, Multiply(b, NEGATIVE_ONE))
Square(e) == Multiply(e, e)

\* Extent.contains with exclusive bounds (>, <)
ContainsExclusive(range, v) == NumLess(range.min, v) /\ NumLess(v, range.max)

Contains(range, v) == NumLeq(range.min, v) /\ NumLeq(v, range.max)

IsValue(e) == e.k = "Value"

\* the absent entry of a substitution record
NONE == [k |-> "None"]
NoSubstitutions == [x |-> NONE, y |-> NONE]

\* ---------------------------------------------------------------- simplify
\* The outcome of a call: the returned array, or the RangeError that the
\* runtime raises when the recursion never returns.
Returns(seq) == [err |-> FALSE, seq |-> seq]
RangeError == [err |-> TRUE, seq |-> << >>]

\* AddOperate testing only the left operand for undefined
AddOperateLeftOnly(a, b) ==
    IF IsValue(a) /\ IsValue(b)
    THEN IF ~a.num.def THEN UNDEFINED
         ELSE Value(NumAdd(a.num, b.num))
    ELSE Add(a, b)

\* AddOperate adding the left operand to itself
AddOperateLeftTwice(a, b) ==
    IF IsValue(a) /\ IsValue(b)
    THEN IF ~a.num.def \/ ~b.num.def THEN UNDEFINED
         ELSE Value(NumAdd(a.num, a.num))
    ELSE Add(a, b)

AddOperate(a, b) ==
    IF IsValue(a) /\ IsValue(b)
    THEN IF ~a.num.def \/ ~b.num.def THEN UNDEFINED
         ELSE Value(NumAdd(a.num, b.num))
    ELSE Add(a, b)

\* DivideOperate without the test for a zero divisor
DivideOperateNoZeroTest(a, b) ==
    IF IsValue(a) /\ IsValue(b)
    THEN IF ~a.num.def \/ ~b.num.def THEN UNDEFINED
         ELSE Value(NumDiv(a.num, b.num))
    ELSE Divide(a, b)

DivideOperate(a, b) ==
    IF IsValue(a) /\ IsValue(b)
    THEN IF ~a.num.def \/ ~b.num.def \/ b.num = Whole(0) THEN UNDEFINED
         ELSE Value(NumDiv(a.num, b.num))
    ELSE Divide(a, b)

\* PrincipalSqrtOperate rejecting zero as well (value <= 0)
PrincipalSqrtOperateRejectsZero(c) ==
    IF IsValue(c)
    THEN Value(IF ~c.num.def \/ NumLeq(c.num, Whole(0)) THEN undefined ELSE NumSqrt(c.num))
    ELSE PrincipalSqrt(c)

\* PrincipalSqrtOperate without the test for a negative operand
PrincipalSqrtOperateNoSignTest(c) ==
    IF IsValue(c)
    THEN Value(IF ~c.num.def THEN undefined ELSE NumSqrt(c.num))
    ELSE PrincipalSqrt(c)

\* PrincipalSqrtOperate wrapping a symbolic operand in Sqrt
PrincipalSqrtOperateKeepsSqrt(c) ==
    IF IsValue(c)
    THEN Value(IF ~c.num.def \/ NumLess(c.num, Whole(0)) THEN undefined ELSE NumSqrt(c.num))
    ELSE Sqrt(c)

PrincipalSqrtOperate(c) ==
    IF IsValue(c)
    THEN Value(IF ~c.num.def \/ NumLess(c.num, Whole(0)) THEN undefined ELSE NumSqrt(c.num))
    ELSE PrincipalSqrt(c)

RestrictToOperate(c, range) ==
    IF IsValue(c)
    THEN IF ~c.num.def THEN UNDEFINED
         ELSE Value(IF Contains(range, c.num) THEN c.num ELSE undefined)
    ELSE RestrictTo(c, range)

\* AddLoop with the loops exchanged: b outer, a inner
AddLoopColumnMajor(as, bs) ==
    [i \in 1..(Len(as) * Len(bs)) |->
        AddOperate(as[((i - 1) % Len(as)) + 1], bs[((i - 1) \div Len(as)) + 1])]

\* the nested for-of loops of a binary operator: a outer, b inner
AddLoop(as, bs) ==
    [i \in 1..(Len(as) * Len(bs)) |->
        AddOperate(as[((i - 1) \div Len(bs)) + 1], bs[((i - 1) % Len(bs)) + 1])]

DivideLoop(as, bs) ==
    [i \in 1..(Len(as) * Len(bs)) |->
        DivideOperate(as[((i - 1) \div Len(bs)) + 1], bs[((i - 1) % Len(bs)) + 1])]

\* Variable.simplify ignoring the substitutions
VariableSimplifyUnbound(e, s) == <<e>>

\* Variable.simplify: the bound expression as it is, or the variable itself
VariableSimplify(e, s) ==
    <<IF e.name \in DOMAIN s /\ s[e.name] # NONE THEN s[e.name] ELSE e>>

RECURSIVE Simplify(_, _, _)
RECURSIVE SqrtFlatMap(_, _, _)

\* Sqrt.simplify's flatMap over the principal candidates
SqrtFlatMap(ps, s, stack) ==
    IF ps = << >> THEN Returns(<< >>)
    ELSE LET neg == Simplify(Multiply(Head(ps), NEGATIVE_ONE), s, stack)
             rest == SqrtFlatMap(Tail(ps), s, stack)
         IN  IF neg.err \/ rest.err THEN RangeError
             ELSE Returns(<<Head(ps)>> \o neg.seq \o rest.seq)

\* e.simplify(s); stack is the set of Sqrt nodes whose simplify is active
\* further up the call stack: re-entering one of them with the same
\* substitutions recurses for ever.
Simplify(e, s, stack) ==
    CASE e.k = "Variable" -> Returns(VariableSimplify(e, s))
      [] e.k = "Value" -> Returns(<<e>>)
      [] e.k = "Add" ->
            LET a == Simplify(e.a, s, stack)
                b == Simplify(e.b, s, stack)
            IN  IF a.err \/ b.err THEN RangeError ELSE Returns(AddLoop(a.seq, b.seq))
      [] e.k = "Divide" ->
            LET a == Simplify(e.a, s, stack)
                b == Simplify(e.b, s, stack)
            IN  IF a.err \/ b.err THEN RangeError ELSE Returns(DivideLoop(a.seq, b.seq))
      [] e.k = "RestrictTo" ->
            LET v == Simplify(e.value, s, stack)
            IN  IF v.err THEN RangeError
                ELSE Returns([i \in 1..Len(v.seq) |-> RestrictToOperate(v.seq[i], e.range)])
      [] e.k = "PrincipalSqrt" ->
            LET v == Simplify(e.value, s, stack)
            IN  IF v.err THEN RangeError
                ELSE Returns([i \in 1..Len(v.seq) |-> PrincipalSqrtOperate(v.seq[i])])
      [] e.k = "Sqrt" ->
            IF e \in stack THEN RangeError
            ELSE LET v == Simplify(e.value, s, stack \cup {e})
                 IN  IF v.err THEN RangeError
                     ELSE SqrtFlatMap([i \in 1..Len(v.seq) |-> PrincipalSqrtOperate(v.seq[i])],
                                      s, stack \cup {e})

simplify(e, s) == Simplify(e, s, {})

\* variables() of a binary operator forgetting the right operand
RECURSIVE variablesLeftOnly(_)
variablesLeftOnly(e) ==
    CASE e.k = "Variable" -> {e.name}
      [] e.k = "Value" -> {}
      [] e.k \in {"Add", "Divide"} -> variablesLeftOnly(e.a)
      [] OTHER -> variablesLeftOnly(e.value)

RECURSIVE variables(_)
variables(e) ==
    CASE e.k = "Variable" -> {e.name}
      [] e.k = "Value" -> {}
      [] e.k \in {"Add", "Divide"} -> variables(e.a) \cup variables(e.b)
      [] OTHER -> variables(e.value)

\* ------------------------------------------------------------ input sets
Numbers ==
    {Num(p, q) : p \in (-MaxNum)..MaxNum, q \in 1..MaxDen} \cup {NaN, Infinity, NegInfinity}

ValueLeaves == {Value(v) : v \in Numbers \cup {undefined}}

\* expressions over constants only
ValueExprs ==
    {Add(a, b) : a \in ValueLeaves, b \in ValueLeaves}
    \cup {Divide(a, b) : a \in ValueLeaves, b \in ValueLeaves}
    \cup {PrincipalSqrt(a) : a \in ValueLeaves}
    \cup {Sqrt(a) : a \in ValueLeaves}
    \cup {Multiply(a, b) : a \in ValueLeaves, b \in ValueLeaves}
    \cup {Subtract(a, b) : a \in ValueLeaves, b \in ValueLeaves}
    \cup {RestrictTo(e, Extent(a, b)) : e \in ValueLeaves \cup {Variable("x")}, a \in Numbers, b \in Numbers}
    \cup {Sqrt(Value(NumDiv(r, NumDiv(Whole(1), r)))) : r \in {q \in Numbers : NumLess(Whole(0), q) /\ IsFinite(q)}}

CoreLeaves ==
    {Variable("x"), Variable("y"), Value(Whole(4)), Value(Whole(-1)), Value(Whole(0)), UNDEFINED}

CoreRange == Extent(Whole(2), Whole(0))

Core1 ==
    CoreLeaves
    \cup {Add(a, b) : a \in CoreLeaves, b \in CoreLeaves}
    \cup {Divide(a, b) : a \in CoreLeaves, b \in CoreLeaves}
    \cup {Subtract(a, b) : a \in CoreLeaves, b \in CoreLeaves}
    \cup {Multiply(a, b) : a \in CoreLeaves, b \in CoreLeaves}
    \cup {PrincipalSqrt(a) : a \in CoreLeaves}
    \cup {Sqrt(a) : a \in CoreLeaves}
    \cup {RestrictTo(a, CoreRange) : a \in CoreLeaves}

Roots == {Sqrt(Variable("x")), Sqrt(Variable("y")), Sqrt(Value(Whole(4))), PrincipalSqrt(Variable("x"))}

Core2 ==
    {PrincipalSqrt(a) : a \in Core1}
    \cup {Sqrt(a) : a \in Core1}
    \cup {RestrictTo(a, CoreRange) : a \in Core1}
    \cup {Add(a, b) : a \in Roots, b \in Core1}
    \cup {Divide(a, b) : a \in Core1, b \in Roots}

\* expressions over a variable that is neither x nor y
OtherNamed ==
    {Variable("t"), Add(Variable("t"), Value(Whole(4))), Sqrt(Variable("t")),
     Add(Variable("t"), Variable("x")), Divide(Variable("y"), Variable("t"))}

SymbolicExprs == Core1 \cup Core2 \cup OtherNamed

\* substitution records: absent entries, constants, and expressions that are
\* returned unsimplified by Variable.simplify
Bindings ==
    {NONE, Value(Whole(2)), Value(Whole(0)), UNDEFINED, Variable("y"), Variable("x"),
     Sqrt(Value(Whole(4))), Sqrt(Variable("x")), Sqrt(Variable("y"))}

Substitutions == {[x |-> bx, y |-> by] : bx \in Bindings, by \in {NONE, Value(Whole(-1)), Sqrt(Variable("x"))}}

\* what the plotter is given: the expression, the step and the viewport
Circle == Sqrt(Subtract(Value(Whole(4)), Multiply(Variable("x"), Variable("x"))))
Hyperbola == Divide(ONE, Variable("x"))

PlotExprs ==
    Core1
    \cup {PrincipalSqrt(a) : a \in Core1}
    \cup {Sqrt(a) : a \in Core1}
    \cup {RestrictTo(a, CoreRange) : a \in Core1}
    \cup {Circle, Hyperbola, Add(Sqrt(Variable("x")), Sqrt(Variable("x")))}
    \cup OtherNamed

Steps == {Whole(1), Num(1, 2), Whole(2), Whole(0), Whole(-1)}

\* canvas.to_coordinate_space of the canvas corners
Viewports ==
    {[left |-> Whole(-MaxCoord), right |-> Whole(MaxCoord), bottom |-> Whole(-2), top |-> Whole(2)],
     [left |-> Whole(-3), right |-> Whole(3), bottom |-> Whole(-2), top |-> Whole(2)],
     [left |-> Whole(-2), right |-> Whole(1), bottom |-> Whole(-1), top |-> Whole(1)],
     [left |-> Whole(0), right |-> Whole(0), bottom |-> Whole(-1), top |-> Whole(1)],
     [left |-> Whole(1), right |-> Whole(-1), bottom |-> Whole(1), top |-> Whole(-1)]}

VARIABLES
    expr,               \* the expression simplified or plotted
    subs,               \* the substitutions of the latest simplify call
    out,                \* the outcome of the latest simplify call
    pc,                 \* position in the program
    names,              \* the result of the latest variables() call
    again,              \* the outcomes of simplifying each candidate of out once more
    dependent_axis,     \* Parabola.dependent_axis
    vertex,             \* Parabola.vertex
    point,              \* Parabola.point
    parabola_a,         \* the result of Parabola.a()
    current_id,         \* DesmosDraw.current_id
    shapes,             \* DesmosDraw.shapes
    selected_controls,  \* DesmosDraw.selected_controls
    control_current_id, \* ControlPoint.current_id
    control_selected,   \* ControlPoint.selected
    mouse_position,     \* the global mouse_position
    is_down,            \* the global is_down
    returned,           \* the ids returned by add_shape, in order
    calls,              \* the setters invoked by the latest update, in order
    last,               \* the latest event
    idle_frame,         \* the latest update ran with a shape selected and the button up, only mouse events since
    start_game,         \* the global start_game: "start" or, once called, "noop"
    pending,            \* the number of pending requestAnimationFrame(loop) callbacks
    previous_time_ms,   \* the global previous_time_ms
    now,                \* the time of the page, in ms
    canvas_size,        \* canvas_element.width and height
    frame,              \* what the latest loop callback did
    resizes,            \* the number of resize_canvas calls so far
    step,               \* MathFunctionGraphic.step
    view,               \* the visible range of the canvas
    function_variable,  \* MathFunctionGraphic.function_variable
    math_functions,     \* MathFunctionGraphic.math_functions
    fi,                 \* index of math_function in the for-of loop of draw
    variable,           \* the loop variable of draw
    points,             \* the points array of draw
    paths,              \* the Paths handed to PathGraphic, in order
    samples,            \* per math_function, the samples evaluated so far
    thrown              \* the assertion that failed, or "none"

plot == <<step, view, function_variable, math_functions, fi, variable, points, paths, samples, thrown>>
parabola == <<dependent_axis, vertex, point, parabola_a>>
ui == <<current_id, shapes, selected_controls, control_current_id, control_selected,
        mouse_position, is_down, returned, calls, last, idle_frame>>
anim == <<start_game, pending, previous_time_ms, now, canvas_size, frame, resizes>>
rest == <<again, parabola, ui, anim>>
vars == <<expr, subs, out, pc, names, plot, rest>>

POINT_ZERO == [x |-> Whole(0), y |-> Whole(0)]

\* no parabola is involved
NoParabola ==
    /\ dependent_axis = "y"
    /\ vertex = POINT_ZERO
    /\ point = POINT_ZERO
    /\ parabola_a = Whole(0)

\* ControlPoint.selected === undefined
NoControl == -1

NoEvent == [op |-> "none", id |-> 0]

\* the state of a page on which nothing happened yet
NoUI ==
    /\ current_id = 0
    /\ shapes = [i \in {} |-> NONE]
    /\ selected_controls = NONE
    /\ control_current_id = 0
    /\ control_selected = NoControl
    /\ mouse_position = POINT_ZERO
    /\ is_down = FALSE
    /\ returned = << >>
    /\ calls = << >>
    /\ last = NoEvent
    /\ idle_frame = FALSE

NoFrame == [timestamp |-> 0, previous |-> 0, ran |-> << >>]

\* the page before the first resize and the first frame
NoLoop ==
    /\ start_game = "start"
    /\ pending = 0
    /\ previous_time_ms = 0
    /\ now = 0
    /\ canvas_size = [width |-> 300, height |-> 150]
    /\ frame = NoFrame
    /\ resizes = 0

NoRest == again = << >> /\ NoParabola /\ NoUI /\ NoLoop

NoPlot ==
    /\ step = Whole(1)
    /\ view = [left |-> Whole(0), right |-> Whole(0), bottom |-> Whole(0), top |-> Whole(0)]
    /\ function_variable = "x"
    /\ math_functions = << >>
    /\ fi = 1
    /\ variable = Whole(0)
    /\ points = << >>
    /\ paths = << >>
    /\ samples = << >>
    /\ thrown = "none"

\* ---------------------------------------------------------------- simplifier
Init ==
    /\ \/ expr \in ValueExprs /\ subs = NoSubstitutions
       \/ expr \in SymbolicExprs /\ subs \in Substitutions
    /\ pc = "ready"
    /\ out = Returns(<< >>)
    /\ names = {}
    /\ NoPlot
    /\ NoRest

\* one call expr.simplify(subs)
DoSimplify ==
    /\ pc = "ready"
    /\ out' = simplify(expr, subs)
    /\ pc' = "simplified"
    /\ UNCHANGED <<expr, subs, names, plot, rest>>

\* one call expr.variables()
DoVariables ==
    /\ pc = "ready"
    /\ names' = variables(expr)
    /\ pc' = "queried"
    /\ UNCHANGED <<expr, subs, out, plot, rest>>

\* c.simplify(subs) for each candidate c of the result
DoSimplifyAgain ==
    /\ pc = "simplified"
    /\ ~out.err
    /\ again' = [i \in 1..Len(out.seq) |-> simplify(out.seq[i], subs)]
    /\ pc' = "resimplified"
    /\ UNCHANGED <<expr, subs, out, names, plot, parabola, ui, anim>>

Next == DoSimplify \/ DoVariables \/ DoSimplifyAgain

Spec == Init /\ [][Next]_vars

\* ------------------------------------------------------------------- plotter
InitDraw ==
    /\ expr \in PlotExprs
    /\ step \in Steps
    /\ view \in Viewports
    /\ pc = "new"
    /\ subs = NoSubstitutions
    /\ out = Returns(<< >>)
    /\ names = {}
    /\ NoRest
    /\ function_variable = "x"
    /\ math_functions = << >>
    /\ fi = 1
    /\ variable = Whole(0)
    /\ points = << >>
    /\ paths = << >>
    /\ samples = << >>
    /\ thrown = "none"

\* ConstructorAssert without the test of the number of variables
ConstructorAssertAnySize(vs) == "x" \in vs \/ "y" \in vs

\* ConstructorAssert accepting only the variable x
ConstructorAssertOnlyX(vs) == Cardinality(vs) <= 1 /\ "x" \in vs

\* the assertion of the constructor
ConstructorAssert(vs) == Cardinality(vs) <= 1 /\ ("x" \in vs \/ "y" \in vs)

\* new MathFunctionGraphic(expr, stroke_style, step)
Construct ==
    /\ pc = "new"
    /\ names' = variables(expr)
    /\ IF ConstructorAssert(names')
       THEN /\ function_variable' = (CHOOSE n \in names' : TRUE)
            /\ subs' = NoSubstitutions
            /\ out' = simplify(expr, NoSubstitutions)
            /\ math_functions' = out'.seq
            /\ pc' = "constructed"
            /\ UNCHANGED thrown
       ELSE /\ thrown' = "constructor"
            /\ pc' = "thrown"
            /\ UNCHANGED <<function_variable, subs, out, math_functions>>
    /\ UNCHANGED <<expr, step, view, fi, variable, points, paths, samples, rest>>

x_based == function_variable = "x"
start == IF x_based THEN view.left ELSE view.bottom
end == IF x_based THEN view.right ELSE view.top

\* draw(canvas) is entered
DrawBegin ==
    /\ pc = "constructed"
    /\ fi' = 1
    /\ paths' = << >>
    /\ samples' = << >>
    /\ pc' = "for"
    /\ UNCHANGED <<expr, names, subs, out, step, view, function_variable, math_functions, variable, points, thrown, rest>>

\* for (const math_function of this.math_functions): next element, or the end
ForNext ==
    /\ pc = "for"
    /\ IF fi <= Len(math_functions)
       THEN /\ points' = << >>
            /\ variable' = start
            /\ samples' = Append(samples, << >>)
            /\ pc' = "while"
       ELSE /\ pc' = "drawn"
            /\ UNCHANGED <<points, variable, samples>>
    /\ UNCHANGED <<expr, names, subs, out, step, view, function_variable, math_functions, fi, paths, thrown, rest>>

DOMPoint(v, output) == IF x_based THEN [x |-> v, y |-> output] ELSE [x |-> output, y |-> v]

Binding(name, e) == [NoSubstitutions EXCEPT ![name] = e]

\* PathsAfter never closing the open polyline
PathsAfterNeverCloses(ps, pts, f, output) == ps

\* the Paths drawn so far after a sample: an undefined output closes the
\* open polyline when it has at least one point
PathsAfter(ps, pts, f, output) ==
    IF ~output.def /\ Len(pts) >= 1 THEN Append(ps, [f |-> f, points |-> pts]) ELSE ps

\* PointsAfter without the else: the point is pushed after an undefined output too
PointsAfterAlwaysPush(pts, v, output) ==
    Append(IF ~output.def THEN << >> ELSE pts, DOMPoint(v, output))

\* the points array after a sample
PointsAfter(pts, v, output) ==
    IF ~output.def THEN << >> ELSE Append(pts, DOMPoint(v, output))

\* one iteration of while (variable <= end)
WhileBody ==
    /\ pc = "while"
    /\ NumLeq(variable, end)
    /\ Len(samples[fi]) < MaxSamples
    /\ subs' = Binding(function_variable, Value(variable))
    /\ out' = simplify(math_functions[fi], subs')
    /\ IF Len(out'.seq) # 1
       THEN /\ thrown' = "multiple"
            /\ pc' = "thrown"
            /\ UNCHANGED <<points, paths, samples, variable>>
       ELSE IF ~IsValue(out'.seq[1])
       THEN /\ thrown' = "not_value"
            /\ pc' = "thrown"
            /\ UNCHANGED <<points, paths, samples, variable>>
       ELSE LET output == out'.seq[1].num
            IN  /\ paths' = PathsAfter(paths, points, fi, output)
                /\ points' = PointsAfter(points, variable, output)
                /\ samples' = [samples EXCEPT ![fi] = Append(@, [variable |-> variable, output |-> output])]
                /\ variable' = NumAdd(variable, step)
                /\ UNCHANGED <<pc, thrown>>
    /\ UNCHANGED <<expr, names, step, view, function_variable, math_functions, fi, rest>>

\* the while loop ends: the remaining points are drawn
WhileExit ==
    /\ pc = "while"
    /\ ~NumLeq(variable, end)
    /\ paths' = Append(paths, [f |-> fi, points |-> points])
    /\ fi' = fi + 1
    /\ pc' = "for"
    /\ UNCHANGED <<expr, names, subs, out, step, view, function_variable, math_functions, variable, points, samples, thrown, rest>>

NextDraw == Construct \/ DrawBegin \/ ForNext \/ WhileBody \/ WhileExit

SpecDraw == InitDraw /\ [][NextDraw]_vars

\* the plotter on a line, the hyperbola and a two-branch root with every step
InitSampling ==
    /\ InitDraw
    /\ expr \in {Variable("x"), Hyperbola, Sqrt(Variable("y"))}

\* the constructor and draw run to completion: a step that can be taken is taken
SpecSampling == InitSampling /\ [][NextDraw]_vars /\ WF_vars(NextDraw)

\* ---------------------------------------------------------------- parabola
MaxParabolaCoord == 2

ParabolaPoints ==
    {[x |-> Whole(i), y |-> Whole(j)] : i \in -1..MaxParabolaCoord, j \in -1..MaxParabolaCoord}

\* Parabola.a dividing by the offset instead of its square
ParabolaANotSquared(axis, v, p) ==
    LET x_difference == NumSub(p.x, v.x)
        y_difference == NumSub(p.y, v.y)
        numerator == IF axis = "x" THEN x_difference ELSE y_difference
        denominator == IF axis = "x" THEN y_difference ELSE x_difference
    IN  NumDiv(numerator, denominator)

\* Parabola.a()
ParabolaA(axis, v, p) ==
    LET x_difference == NumSub(p.x, v.x)
        y_difference == NumSub(p.y, v.y)
        numerator == IF axis = "x" THEN x_difference ELSE y_difference
        denominator == IF axis = "x" THEN y_difference ELSE x_difference
    IN  NumDiv(numerator, NumMul(denominator, denominator))

\* the equation that ParabolaGraphic.draw hands to MathFunctionGraphic
ParabolaEquation(axis, v, p, coefficient) ==
    LET vertical == axis = "y"
        free == IF vertical THEN Variable("x") ELSE Variable("y")
        squared_vertex == IF vertical THEN Value(v.x) ELSE Value(v.y)
        added_vertex == IF vertical THEN Value(v.y) ELSE Value(v.x)
        clamper == IF vertical THEN Extent(v.y, p.y) ELSE Extent(v.x, p.x)
    IN  RestrictTo(
            Add(Multiply(Value(coefficient), Square(Subtract(free, squared_vertex))),
                added_vertex),
            Extent(clamper.min, clamper.max))

InitParabola ==
    /\ dependent_axis \in {"x", "y"}
    /\ vertex \in ParabolaPoints
    /\ point \in ParabolaPoints
    /\ parabola_a = Whole(0)
    /\ again = << >>
    /\ NoUI
    /\ NoLoop
    /\ expr = UNDEFINED
    /\ step \in {Whole(1), Num(1, 2)}
    /\ view \in Viewports
    /\ pc = "parabola"
    /\ subs = NoSubstitutions
    /\ out = Returns(<< >>)
    /\ names = {}
    /\ function_variable = "x"
    /\ math_functions = << >>
    /\ fi = 1
    /\ variable = Whole(0)
    /\ points = << >>
    /\ paths = << >>
    /\ samples = << >>
    /\ thrown = "none"

\* ParabolaGraphic.draw up to the construction of the MathFunctionGraphic
ParabolaGraphicDraw ==
    /\ pc = "parabola"
    /\ parabola_a' = ParabolaA(dependent_axis, vertex, point)
    /\ expr' = ParabolaEquation(dependent_axis, vertex, point, parabola_a')
    /\ pc' = "new"
    /\ UNCHANGED <<subs, out, names, plot, again, dependent_axis, vertex, point, ui, anim>>

NextParabola ==
    ParabolaGraphicDraw \/ Construct \/ DrawBegin \/ ForNext \/ WhileBody \/ WhileExit

SpecParabola == InitParabola /\ [][NextParabola]_vars

\* -------------------------------------------------------------- DesmosDraw
MaxShapeIds == 2
MaxControlIds == 6

\* ControlPoint.radius when none is given
DEFAULT_RADIUS == Num(1, 4)

DOMPointOf(i, j) == [x |-> Whole(i), y |-> Whole(j)]

\* where the pointer can be: on the control points of the new shapes
MousePositions == {DOMPointOf(0, 0), DOMPointOf(1, 0), DOMPointOf(1, 1)}

ShapeKinds == {"line", "ellipse"}

\* the shapes built by the tools
NewShape(kind) ==
    CASE kind = "line" -> [kind |-> "line", start |-> DOMPointOf(-1, -1), end |-> DOMPointOf(1, 1)]
      [] kind = "ellipse" -> [kind |-> "ellipse", center |-> POINT_ZERO,
                              horizontal_radius |-> Whole(1), vertical_radius |-> Whole(1)]

\* the keys of shape.controls(), in the order of Object.values
ControlNames(kind) ==
    CASE kind = "line" -> <<"start", "end">>
      [] kind = "ellipse" -> <<"horizontal_radius", "vertical_radius", "center">>

\* ControlPoint.point() of the control called name
ControlPosition(shape, name) ==
    CASE shape.kind = "line" -> IF name = "start" THEN shape.start ELSE shape.end
      [] shape.kind = "ellipse" ->
            IF name = "horizontal_radius"
            THEN [x |-> NumAdd(shape.center.x, shape.horizontal_radius), y |-> shape.center.y]
            ELSE IF name = "vertical_radius"
            THEN [x |-> shape.center.x, y |-> NumAdd(shape.center.y, shape.vertical_radius)]
            ELSE shape.center

\* the control is an AxisProperty (of axis x or y) or a PointProperty
ControlAxis(kind, name) ==
    IF name = "horizontal_radius" THEN "x"
    ELSE IF name = "vertical_radius" THEN "y"
    ELSE "point"

\* what ControlPoint.update hands to the setter
SetterArgument(kind, name, mouse) ==
    CASE ControlAxis(kind, name) = "x" -> mouse.x
      [] ControlAxis(kind, name) = "y" -> mouse.y
      [] OTHER -> mouse

\* the shape after control.setter(argument)
Setter(shape, name, argument) ==
    CASE shape.kind = "line" ->
            IF name = "start" THEN [shape EXCEPT !.start = argument]
            ELSE [shape EXCEPT !.end = argument]
      [] shape.kind = "ellipse" ->
            IF name = "horizontal_radius"
            THEN [shape EXCEPT !.horizontal_radius = NumSub(argument, shape.center.x)]
            ELSE IF name = "vertical_radius"
            THEN [shape EXCEPT !.vertical_radius = NumSub(argument, shape.center.y)]
            ELSE [shape EXCEPT !.center = argument]

squared_distance(p, q) ==
    LET x_delta == NumSub(p.x, q.x)
        y_delta == NumSub(p.y, q.y)
    IN  NumAdd(NumMul(x_delta, x_delta), NumMul(y_delta, y_delta))

distance(p, q) == NumSqrt(squared_distance(p, q))

\* shape.controls(): new ControlPoints, numbered from first
Controls(id, kind, first) ==
    [shape |-> id,
     controls |-> [i \in 1..Len(ControlNames(kind)) |->
                      [id |-> first + i - 1, name |-> ControlNames(kind)[i]]]]

\* the grab test of ControlPoint.update
Grabs(control, shape, mouse, down, selected) ==
    /\ NumLess(distance(ControlPosition(shape, control.name), mouse), DEFAULT_RADIUS)
    /\ down
    /\ selected = NoControl

\* the release test of ControlPoint.update
Released(control, shape, mouse, down) == ~down

\* control_point.update(delta_time, input) on st = [shape, selected, calls]
ControlPointUpdate(st, control, mouse, down) ==
    LET grabbed == IF Grabs(control, st.shape, mouse, down, st.selected)
                   THEN control.id ELSE st.selected
    IN  IF control.id = grabbed
        THEN LET argument == SetterArgument(st.shape.kind, control.name, mouse)
             IN  [shape |-> Setter(st.shape, control.name, argument),
                  selected |-> IF Released(control, st.shape, mouse, down) THEN NoControl ELSE grabbed,
                  calls |-> Append(st.calls, [id |-> control.id, name |-> control.name,
                                              argument |-> argument])]
        ELSE [st EXCEPT !.selected = grabbed]

\* the for-of loop of DesmosDraw.update over Object.values(selected_controls)
RECURSIVE UpdateControls(_, _, _, _)
UpdateControls(st, controls, mouse, down) ==
    IF controls = << >> THEN st
    ELSE UpdateControls(ControlPointUpdate(st, Head(controls), mouse, down),
                        Tail(controls), mouse, down)

\* this.current_id += 1 left out
IncrementIdStuck(id) == id

\* this.current_id += 1
IncrementId(id) == id + 1

\* remove_shape keeping the selection of another shape
SelectionAfterRemoveOther(selection, id) ==
    IF selection # NONE /\ selection.shape = id THEN NONE ELSE selection

\* this.selected_controls = undefined in remove_shape
SelectionAfterRemove(selection, id) == NONE

InitUI ==
    /\ NoUI
    /\ expr = UNDEFINED
    /\ subs = NoSubstitutions
    /\ out = Returns(<< >>)
    /\ pc = "page"
    /\ names = {}
    /\ again = << >>
    /\ NoParabola
    /\ NoPlot
    /\ NoLoop

engine == <<expr, subs, out, pc, names, plot, again, parabola, anim>>

\* a tool's click handler: desmos_draw.add_shape(builder())
AddShape(kind) ==
    /\ pc = "page"
    /\ current_id < MaxShapeIds
    /\ control_current_id + Len(ControlNames(kind)) <= MaxControlIds
    /\ current_id' = IncrementId(current_id)
    /\ shapes' = [i \in DOMAIN shapes \cup {current_id} |->
                     IF i = current_id THEN NewShape(kind) ELSE shapes[i]]
    /\ selected_controls' = Controls(current_id, kind, control_current_id)
    /\ control_current_id' = control_current_id + Len(ControlNames(kind))
    /\ returned' = Append(returned, current_id)
    /\ last' = [op |-> "add_shape", id |-> current_id]
    /\ idle_frame' = FALSE
    /\ UNCHANGED <<control_selected, mouse_position, is_down, calls, engine>>

\* desmos_draw.remove_shape(id)
RemoveShape(id) ==
    /\ pc = "page"
    /\ selected_controls' = SelectionAfterRemove(selected_controls, id)
    /\ shapes' = [i \in DOMAIN shapes \ {id} |-> shapes[i]]
    /\ last' = [op |-> "remove_shape", id |-> id]
    /\ idle_frame' = FALSE
    /\ UNCHANGED <<current_id, control_current_id, control_selected, mouse_position, is_down,
                   returned, calls, engine>>

\* desmos_draw.select_shape(id)
SelectShape(id) ==
    /\ pc = "page"
    /\ IF id \in DOMAIN shapes
       THEN /\ control_current_id + Len(ControlNames(shapes[id].kind)) <= MaxControlIds
            /\ selected_controls' = Controls(id, shapes[id].kind, control_current_id)
            /\ control_current_id' = control_current_id + Len(ControlNames(shapes[id].kind))
       ELSE /\ selected_controls' = NONE
            /\ UNCHANGED control_current_id
    /\ last' = [op |-> "select_shape", id |-> id]
    /\ idle_frame' = FALSE
    /\ UNCHANGED <<current_id, shapes, control_selected, mouse_position, is_down,
                   returned, calls, engine>>

\* the mousedown listener
MouseDown ==
    /\ pc = "page"
    /\ is_down' = TRUE
    /\ last' = [op |-> "mousedown", id |-> 0]
    /\ UNCHANGED <<current_id, shapes, selected_controls, control_current_id, control_selected,
                   mouse_position, returned, calls, idle_frame, engine>>

\* the mouseup listener
MouseUp ==
    /\ pc = "page"
    /\ is_down' = FALSE
    /\ last' = [op |-> "mouseup", id |-> 0]
    /\ UNCHANGED <<current_id, shapes, selected_controls, control_current_id, control_selected,
                   mouse_position, returned, calls, idle_frame, engine>>

\* the mousemove listener
MouseMove(position) ==
    /\ pc = "page"
    /\ mouse_position' = position
    /\ last' = [op |-> "mousemove", id |-> 0]
    /\ UNCHANGED <<current_id, shapes, selected_controls, control_current_id, control_selected,
                   is_down, returned, calls, idle_frame, engine>>

\* desmos_draw.update(delta_time, input) of a frame
Update ==
    /\ pc = "page"
    /\ IF selected_controls = NONE
       THEN /\ calls' = << >>
            /\ UNCHANGED <<shapes, control_selected>>
       ELSE LET id == selected_controls.shape
                st == UpdateControls([shape |-> shapes[id], selected |-> control_selected,
                                      calls |-> << >>],
                                     selected_controls.controls, mouse_position, is_down)
            IN  /\ shapes' = [shapes EXCEPT ![id] = st.shape]
                /\ control_selected' = st.selected
                /\ calls' = st.calls
    /\ idle_frame' = (selected_controls # NONE /\ ~is_down)
    /\ last' = [op |-> "update", id |-> 0]
    /\ UNCHANGED <<current_id, selected_controls, control_current_id, mouse_position, is_down,
                   returned, engine>>

NextUI ==
    \/ \E kind \in ShapeKinds : AddShape(kind)
    \/ \E id \in 0..MaxShapeIds : RemoveShape(id)
    \/ \E id \in 0..MaxShapeIds : SelectShape(id)
    \/ MouseDown
    \/ MouseUp
    \/ \E position \in MousePositions : MouseMove(position)
    \/ Update

SpecUI == InitUI /\ [][NextUI]_vars

\* -------------------------------------------------------------- frame loop
MaxTime == 60
MaxResizes == 3

TARGET_FPS == 60
FRAME_TIME == Num(1000, TARGET_FPS)

\* how much time passes between two events, in ms
TimeSteps == {7, 10}

\* the sizes the resize observer reports
ScreenSizes == {[width |-> 300, height |-> 150], [width |-> 600, height |-> 400]}

InitLoop ==
    /\ NoLoop
    /\ NoUI
    /\ expr = UNDEFINED
    /\ subs = NoSubstitutions
    /\ out = Returns(<< >>)
    /\ pc = "loop"
    /\ names = {}
    /\ again = << >>
    /\ NoParabola
    /\ NoPlot

\* time passes
Tick(ms) ==
    /\ pc = "loop"
    /\ now + ms <= MaxTime
    /\ now' = now + ms
    /\ UNCHANGED <<start_game, pending, previous_time_ms, canvas_size, frame, resizes,
                   expr, subs, out, pc, names, plot, again, parabola, ui>>

\* start_game after a call that leaves it as it is
StartGameKept(current) == current

\* start_game after a call: start_game = () => { }
StartGameCalled(current) == "noop"

\* resize_canvas(entries) with the canvas's entry, start_game() included
ResizeCanvas(screen_size) ==
    /\ pc = "loop"
    /\ resizes < MaxResizes
    /\ canvas_size' = screen_size
    /\ start_game' = StartGameCalled(start_game)
    /\ pending' = IF start_game = "start" THEN pending + 1 ELSE pending
    /\ resizes' = resizes + 1
    /\ UNCHANGED <<previous_time_ms, now, frame,
                   expr, subs, out, pc, names, plot, again, parabola, ui>>

\* one pending callback runs: loop(timestamp)
Loop ==
    /\ pc = "loop"
    /\ pending > 0
    /\ LET delta_time == now - previous_time_ms
       IN  IF NumLeq(FRAME_TIME, Whole(delta_time))
           THEN /\ previous_time_ms' = now
                /\ frame' = [timestamp |-> now, previous |-> previous_time_ms,
                             ran |-> <<"update", "draw">>]
           ELSE /\ frame' = [timestamp |-> now, previous |-> previous_time_ms, ran |-> << >>]
                /\ UNCHANGED previous_time_ms
    /\ pending' = (pending - 1) + 1
    /\ UNCHANGED <<start_game, now, canvas_size, resizes,
                   expr, subs, out, pc, names, plot, again, parabola, ui>>

NextLoop ==
    \/ \E ms \in TimeSteps : Tick(ms)
    \/ \E screen_size \in ScreenSizes : ResizeCanvas(screen_size)
    \/ Loop

SpecLoop == InitLoop /\ [][NextLoop]_vars

\* ================================================================== claims
IsBinary(e) == e.k \in {"Add", "Divide"}
Operate(k, a, b) == IF k = "Add" THEN AddOperate(a, b) ELSE DivideOperate(a, b)
NumNeg(p) == [p EXCEPT !.n = -p.n]
Simplified == pc = "simplified"

\* C1: simplify(substitutions) returns a sequence with at least one candidate,
\* for every expression and every substitution map whose values are expressions.
C1_SimplifyReturnsNonEmpty == Simplified => (~out.err /\ Len(out.seq) >= 1)

\* C5 (as claimed): when one operand candidate of an Add or Divide is the
\* undefined Value, the combined candidate is the undefined Value, whatever
\* the other operand candidate is.
C5_UndefinedAbsorbsAnything ==
    (Simplified /\ IsBinary(expr) /\ ~out.err) =>
        LET a == simplify(expr.a, subs).seq
            b == simplify(expr.b, subs).seq
        IN  \A i \in 1..Len(a), j \in 1..Len(b) :
                (a[i] = UNDEFINED \/ b[j] = UNDEFINED) =>
                    out.seq[(i - 1) * Len(b) + j] = UNDEFINED

\* C5 (amended): when one operand candidate is the undefined Value and the
\* other is a Value, the combined candidate is the undefined Value; when the
\* other is still symbolic, the combined candidate is a node of the same
\* operator over the two candidates, the undefined operand kept in place.
C5_UndefinedAbsorbsValues ==
    (Simplified /\ IsBinary(expr) /\ ~out.err) =>
        LET a == simplify(expr.a, subs).seq
            b == simplify(expr.b, subs).seq
        IN  \A i \in 1..Len(a), j \in 1..Len(b) :
                (a[i] = UNDEFINED \/ b[j] = UNDEFINED) =>
                    out.seq[(i - 1) * Len(b) + j] =
                        IF IsValue(a[i]) /\ IsValue(b[j]) THEN UNDEFINED
                        ELSE [k |-> expr.k, a |-> a[i], b |-> b[j]]

C5_Witness ==
    /\ Simplified
    /\ expr = Add(Value(Whole(4)), UNDEFINED)
    /\ out = Returns(<<UNDEFINED>>)

\* C6: Divide(Value(a), Value(0)).simplify({}) returns exactly one candidate,
\* the undefined Value, for every number a and for a undefined.
C6_DivideByZeroIsUndefined ==
    \A a \in Numbers \cup {undefined} :
        (Simplified /\ expr = Divide(Value(a), Value(Whole(0))) /\ subs = NoSubstitutions) =>
            out = Returns(<<UNDEFINED>>)

C6_Witness ==
    /\ Simplified
    /\ expr = Divide(Value(Whole(4)), Value(Whole(0)))
    /\ subs = NoSubstitutions
    /\ out = Returns(<<UNDEFINED>>)

\* C7: an Add or Divide node returns as many candidates as the product of
\* the counts of its two children, the pairwise combinations in row-major
\* order (left child outer, right child inner).
C7_CartesianProductRowMajor ==
    (Simplified /\ IsBinary(expr)) =>
        LET a == simplify(expr.a, subs)
            b == simplify(expr.b, subs)
        IN  (~a.err /\ ~b.err) =>
                /\ ~out.err
                /\ Len(out.seq) = Len(a.seq) * Len(b.seq)
                /\ \A i \in 1..Len(a.seq), j \in 1..Len(b.seq) :
                       out.seq[(i - 1) * Len(b.seq) + j] = Operate(expr.k, a.seq[i], b.seq[j])

C7_Witness ==
    /\ Simplified
    /\ expr = Add(Sqrt(Value(Whole(4))), Sqrt(Variable("x")))
    /\ subs = NoSubstitutions
    /\ Len(out.seq) = 4
    /\ out.seq[2] = Add(Value(Whole(2)), Divide(PrincipalSqrt(Variable("x")), NEGATIVE_ONE))
    /\ out.seq[3] = Add(Value(Whole(-2)), PrincipalSqrt(Variable("x")))

\* C8: Sqrt(e).simplify(s) returns exactly twice as many candidates as
\* PrincipalSqrt(e).simplify(s), each principal candidate followed by its
\* negation, for every operand e and every substitution map s.
C8_SqrtDoublesPrincipal ==
    (Simplified /\ expr.k = "Sqrt") =>
        LET p == simplify(PrincipalSqrt(expr.value), subs)
        IN  ~p.err =>
                /\ ~out.err
                /\ Len(out.seq) = 2 * Len(p.seq)
                /\ \A i \in 1..Len(p.seq) :
                       /\ out.seq[2 * i - 1] = p.seq[i]
                       /\ IsValue(p.seq[i]) =>
                              out.seq[2 * i] = (IF p.seq[i].num.def
                                                THEN Value(NumNeg(p.seq[i].num))
                                                ELSE UNDEFINED)

\* C9: for every perfect square c = r * r with r >= 0,
\* Sqrt(Value(c)).simplify({}) returns exactly Value(r) and Value(-r).
C9_SqrtOfPerfectSquare ==
    \A r \in {q \in Numbers : IsFinite(q) /\ NumLeq(Whole(0), q)} :
        (Simplified /\ expr = Sqrt(Value(Num(r.n * r.n, r.d * r.d))) /\ subs = NoSubstitutions) =>
            out = Returns(<<Value(r), Value(NumNeg(r))>>)

C9_Witness ==
    /\ Simplified
    /\ expr = Sqrt(Value(Num(9, 4)))
    /\ out = Returns(<<Value(Num(3, 2)), Value(Num(-3, 2))>>)

\* C10: PrincipalSqrt(Value(c)).simplify({}) returns exactly one candidate,
\* the undefined Value, for every negative c and for the undefined Value.
C10_PrincipalSqrtOfNegative ==
    \A c \in {q \in Numbers : NumLess(q, Whole(0))} \cup {undefined} :
        (Simplified /\ expr = PrincipalSqrt(Value(c)) /\ subs = NoSubstitutions) =>
            out = Returns(<<UNDEFINED>>)

C10_Witness ==
    /\ Simplified
    /\ expr = PrincipalSqrt(Value(Whole(-1)))
    /\ out = Returns(<<UNDEFINED>>)

\* --------------------------------------------------------- plotter claims
Range(seq) == {seq[i] : i \in 1..Len(seq)}
Constructed == pc \in {"constructed", "for", "while", "drawn"}

\* C2: for every expression that passes the constructor check, every
\* baseline candidate c and every sample value n, c.simplify({v: Value(n)})
\* has exactly one element and that element is a Value; neither assertion
\* of draw fires.
C2_SampleCollapsesToOneValue ==
    /\ thrown \notin {"multiple", "not_value"}
    /\ Constructed =>
           \A c \in Range(math_functions), n \in Numbers :
               LET o == simplify(c, Binding(function_variable, Value(n)))
               IN  ~o.err /\ Len(o.seq) = 1 /\ IsValue(o.seq[1])

C2_Witness ==
    /\ pc = "while"
    /\ expr = Sqrt(Variable("x"))
    /\ Len(math_functions) = 2
    /\ fi = 2
    /\ subs = Binding("x", Value(Whole(1)))
    /\ out = Returns(<<Value(Whole(-1))>>)

RECURSIVE Flatten(_)
Flatten(ps) == IF ps = << >> THEN << >> ELSE Head(ps).points \o Flatten(Tail(ps))

PathsOf(f) == SelectSeq(paths, LAMBDA p : p.f = f)
IsDefinedSample(s) == s.output.def
SamplePoint(s) == DOMPoint(s.variable, s.output)
DefinedSamples(f) == SelectSeq(samples[f], IsDefinedSample)
DefinedPoints(f) == [i \in 1..Len(DefinedSamples(f)) |-> SamplePoint(DefinedSamples(f)[i])]
\* the number of defined samples among the first i samples
Rank(f, i) == Len(SelectSeq(SubSeq(samples[f], 1, i), IsDefinedSample))
\* the positions, in the sequence of defined samples, after which a new
\* polyline starts
Breaks(f) ==
    {Len(Flatten(SubSeq(PathsOf(f), 1, m))) : m \in 1..Len(PathsOf(f))}
    \ {0, Len(Flatten(PathsOf(f)))}
OutputOf(pt) == IF x_based THEN pt.y ELSE pt.x

\* C3: for each baseline candidate the polylines handed to PathGraphic are
\* the maximal runs of consecutive samples with defined output: no polyline
\* holds or spans a sample with undefined output, two adjacent defined samples
\* are in the same polyline, and every defined sample is in exactly one
\* polyline (the open points array counting as the polyline being built).
C3_PolylinesAreMaximalRuns ==
    (pc \in {"for", "while", "drawn"}) =>
        \A f \in 1..Len(samples) :
            /\ \A p \in Range(PathsOf(f)) : \A pt \in Range(p.points) : OutputOf(pt).def
            /\ Flatten(PathsOf(f)) \o (IF pc = "while" /\ f = fi THEN points ELSE << >>)
                   = DefinedPoints(f)
            /\ \A i \in 1..(Len(samples[f]) - 1) :
                   IF samples[f][i].output.def /\ samples[f][i + 1].output.def
                   THEN Rank(f, i) \notin Breaks(f)
                   ELSE (Rank(f, i) \in 1..(Len(Flatten(PathsOf(f))) - 1)) => Rank(f, i) \in Breaks(f)

C3_Witness ==
    /\ pc = "drawn"
    /\ expr = Hyperbola
    /\ step = Whole(1)
    /\ Len(samples[1]) = 2 * MaxCoord + 1
    /\ ~samples[1][MaxCoord + 1].output.def
    /\ Len(paths) = 2
    /\ Len(paths[1].points) = MaxCoord
    /\ Len(paths[2].points) = MaxCoord

\* C4: every polyline handed to PathGraphic contains at least one point.
C4_EveryPathHasAPoint == \A i \in 1..Len(paths) : Len(paths[i].points) >= 1


\* ------------------------------------------------- arithmetic on constants
\* r is the number a + b, a - b, a * b (exact arithmetic on finite numbers)
IsSum(a, b, r) == IsFinite(r) /\ r.n * a.d * b.d = (a.n * b.d + b.n * a.d) * r.d
IsDifference(a, b, r) == IsFinite(r) /\ r.n * a.d * b.d = (a.n * b.d - b.n * a.d) * r.d
IsProduct(a, b, r) == IsFinite(r) /\ r.n * a.d * b.d = a.n * b.n * r.d
IsNumeric(e) == IsValue(e) /\ e.num.def
OneNumber(o) == ~o.err /\ Len(o.seq) = 1 /\ IsNumeric(o.seq[1])

\* C11: Add(Value(a), Value(b)).simplify({}) returns exactly one candidate,
\* Value(a + b), for all numbers a and b.
C11_AddOfConstants ==
    (Simplified /\ expr.k = "Add" /\ IsNumeric(expr.a) /\ IsNumeric(expr.b) /\ subs = NoSubstitutions) =>
        /\ OneNumber(out)
        /\ IF IsFinite(expr.a.num) /\ IsFinite(expr.b.num)
           THEN IsSum(expr.a.num, expr.b.num, out.seq[1].num)
           ELSE out.seq[1].num = NumAdd(expr.a.num, expr.b.num)

C11_Witness ==
    /\ Simplified
    /\ expr = Add(Value(Num(3, 2)), Value(Whole(-4)))
    /\ out = Returns(<<Value(Num(-5, 2))>>)

\* C12: Multiply(Value(a), Value(b)).simplify({}) returns exactly one
\* candidate, Value(a * b), for all defined numbers a and b, zero included.
C12_MultiplyOfConstants ==
    (/\ Simplified
     /\ subs = NoSubstitutions
     /\ expr.k = "Divide"
     /\ IsNumeric(expr.a)
     /\ expr.b.k = "Divide"
     /\ IsNumeric(expr.b.b)
     /\ expr = Multiply(expr.a, expr.b.b)
     /\ IsFinite(expr.a.num)
     /\ IsFinite(expr.b.b.num)) =>
        /\ OneNumber(out)
        /\ IsProduct(expr.a.num, expr.b.b.num, out.seq[1].num)

\* C13: Subtract(Value(a), Value(b)).simplify({}) and
\* Add(Value(a), Multiply(Value(b), Value(-1))).simplify({}) return the same
\* single numeric candidate (a - b), for all numbers a and b.
C13_SubtractIsAddOfNegation ==
    (/\ Simplified
     /\ subs = NoSubstitutions
     /\ expr.k = "Add"
     /\ IsNumeric(expr.a)
     /\ expr.b.k = "Divide"
     /\ IsNumeric(expr.b.a)
     /\ expr = Subtract(expr.a, expr.b.a)) =>
        /\ OneNumber(out)
        /\ out = simplify(Add(expr.a, Multiply(expr.b.a, Value(Whole(-1)))), NoSubstitutions)
        /\ (IsFinite(expr.a.num) /\ IsFinite(expr.b.a.num)) =>
               IsDifference(expr.a.num, expr.b.a.num, out.seq[1].num)

C13_Witness ==
    /\ Simplified
    /\ expr = Subtract(Value(Whole(1)), Value(Num(3, 2)))
    /\ out = Returns(<<Value(Num(-1, 2))>>)


\* ------------------------------------------------------ domain restriction
\* C14: RestrictTo(Value(v), Extent(lo, hi)).simplify({}) with lo <= hi
\* returns exactly one candidate: Value(v) when lo <= v <= hi (both bounds
\* inclusive), the undefined Value otherwise and for an undefined operand.
C14_RestrictToFiltersInclusive ==
    (/\ Simplified
     /\ subs = NoSubstitutions
     /\ expr.k = "RestrictTo"
     /\ IsValue(expr.value)
     /\ NumLeq(expr.range.min, expr.range.max)) =>
        out = Returns(<<IF /\ expr.value.num.def
                           /\ NumLeq(expr.range.min, expr.value.num)
                           /\ NumLeq(expr.value.num, expr.range.max)
                        THEN expr.value
                        ELSE UNDEFINED>>)

C14_Witness ==
    /\ Simplified
    /\ expr = RestrictTo(Value(Whole(0)), Extent(Whole(0), Whole(2)))
    /\ out = Returns(<<Value(Whole(0))>>)

\* C15 (as claimed): for all numbers a and b, Extent(a, b) has min <= max and
\* {min, max} = {a, b}, and RestrictTo(e, Extent(a, b)) and
\* RestrictTo(e, Extent(b, a)) simplify to the same candidates.
C15_ExtentOrdersAnyNumbers ==
    (Simplified /\ expr.k = "RestrictTo") =>
        \A a \in Numbers, b \in Numbers :
            (expr.range = Extent(a, b)) =>
                /\ NumLeq(expr.range.min, expr.range.max)
                /\ {expr.range.min, expr.range.max} = {a, b}
                /\ out = simplify(RestrictTo(expr.value, Extent(b, a)), subs)

\* C15 (amended): the same for all numbers a and b other than NaN.
C15_ExtentOrdersComparableNumbers ==
    (Simplified /\ expr.k = "RestrictTo") =>
        \A a \in Numbers, b \in Numbers :
            (expr.range = Extent(a, b) /\ ~IsNaN(a) /\ ~IsNaN(b)) =>
                /\ NumLeq(expr.range.min, expr.range.max)
                /\ {expr.range.min, expr.range.max} = {a, b}
                /\ out = simplify(RestrictTo(expr.value, Extent(b, a)), subs)

C15_Witness ==
    /\ Simplified
    /\ expr = RestrictTo(Value(Whole(1)), Extent(Whole(2), Whole(0)))
    /\ expr.range = [min |-> Whole(0), max |-> Whole(2)]
    /\ out = Returns(<<Value(Whole(1))>>)


\* ------------------------------------------------------- leaves and names
\* C16: Variable(n).simplify(s) returns exactly one candidate, the
\* expression bound to n in s as it is bound (not simplified) when n is a key
\* of s and the variable itself otherwise; Value(v).simplify(s) returns
\* exactly [Value(v)].
C16_LeavesSimplify ==
    /\ (Simplified /\ expr.k = "Variable") =>
           IF expr.name \in DOMAIN subs /\ subs[expr.name] # NONE
           THEN out = Returns(<<subs[expr.name]>>)
           ELSE out = Returns(<<expr>>)
    /\ (Simplified /\ expr.k = "Value") => out = Returns(<<expr>>)

C16_Witness ==
    /\ Simplified
    /\ expr = Variable("x")
    /\ subs.x = Sqrt(Value(Whole(4)))
    /\ out = Returns(<<Sqrt(Value(Whole(4)))>>)

RECURSIVE Subterms(_)
Subterms(e) ==
    {e} \cup (IF e.k \in {"Add", "Divide"} THEN Subterms(e.a) \cup Subterms(e.b)
              ELSE IF e.k \in {"PrincipalSqrt", "Sqrt", "RestrictTo"} THEN Subterms(e.value)
              ELSE {})

\* the names of the Variable leaves of the tree e
LeafNames(e) == {u.name : u \in {w \in Subterms(e) : w.k = "Variable"}}

\* C17: variables() returns exactly the set of names of the Variable leaves
\* in the subtree: a Variable its own name, a Value none, a binary node the
\* union of its children, a unary node or RestrictTo the set of its operand.
C17_VariablesAreLeafNames ==
    (pc = "queried") =>
        /\ names = LeafNames(expr)
        /\ expr.k = "Variable" => names = {expr.name}
        /\ expr.k = "Value" => names = {}
        /\ IsBinary(expr) => names = LeafNames(expr.a) \cup LeafNames(expr.b)
        /\ expr.k \in {"PrincipalSqrt", "Sqrt", "RestrictTo"} => names = LeafNames(expr.value)

C17_Witness ==
    /\ pc = "queried"
    /\ expr = Divide(Variable("y"), Variable("t"))
    /\ names = {"y", "t"}

\* C18 (as claimed): constructing the plotter raises an AssertionError when
\* the expression has zero or more than one free variable, and succeeds for
\* every expression that has exactly one free variable.
C18_ConstructorNeedsOneVariable ==
    (pc # "new") => (thrown = "constructor" <=> Cardinality(LeafNames(expr)) # 1)

\* C18 (amended): it raises an AssertionError when the expression has zero or
\* more than one free variable or when its one free variable is neither x
\* nor y, and succeeds when its one free variable is x or y.
C18_ConstructorNeedsOneXOrY ==
    (pc # "new") =>
        (thrown = "constructor" <=>
            ~(Cardinality(LeafNames(expr)) = 1 /\ LeafNames(expr) \subseteq {"x", "y"}))

C18_Witness ==
    /\ pc = "thrown"
    /\ thrown = "constructor"
    /\ expr = Add(Variable("t"), Value(Whole(4)))
    /\ names = {"t"}


\* ------------------------------------------------------ circle, hyperbola
NonEmpty(p) == Len(p.points) >= 1

\* the Paths of the finished draw that have at least one point, in order
NonEmptyPaths == SelectSeq(paths, NonEmpty)

\* the abscissas of the points of a Path, in order
XsOf(p) == [i \in 1..Len(p.points) |-> p.points[i].x]

\* the sampled values of function f that lie in [lo, hi], in order
SamplesWithin(f, lo, hi) ==
    LET Inside(s) == NumLeq(lo, s.variable) /\ NumLeq(s.variable, hi)
        kept == SelectSeq(samples[f], Inside)
    IN  [i \in 1..Len(kept) |-> kept[i].variable]

\* C19: sampling Sqrt(4 - x * x) over [-3, 3] with a step of 1 or 1/2 (the
\* samples land on x = 0) emits exactly two non-empty polylines, one per
\* branch of Sqrt, each covering all the samples in [-2, 2] without a break.
C19_CircleIsTwoArcs ==
    (/\ pc = "drawn"
     /\ expr = Circle
     /\ view.left = Whole(-3) /\ view.right = Whole(3)
     /\ step \in {Whole(1), Num(1, 2)}) =>
        /\ Len(NonEmptyPaths) = 2
        /\ \A f \in 1..2 :
               \E i \in 1..Len(NonEmptyPaths) :
                   /\ NonEmptyPaths[i].f = f
                   /\ XsOf(NonEmptyPaths[i]) = SamplesWithin(f, Whole(-2), Whole(2))

\* the hyperbola has been drawn over a range that straddles 0 and one sample
\* was exactly 0
HyperbolaAcrossZero ==
    /\ pc = "drawn"
    /\ expr = Hyperbola
    /\ NumLess(view.left, Whole(0)) /\ NumLess(Whole(0), view.right)
    /\ \E k \in 1..Len(samples[1]) : samples[1][k].variable = Whole(0)

ZeroIndex == CHOOSE k \in 1..Len(samples[1]) : samples[1][k].variable = Whole(0)

\* two non-empty polylines, the first ending at the last sample before 0, the
\* second starting at the first sample after 0, none with a point at x = 0
TwoBranchesAroundZero ==
    /\ Len(NonEmptyPaths) = 2
    /\ ZeroIndex > 1 /\ ZeroIndex < Len(samples[1])
    /\ LET first == XsOf(NonEmptyPaths[1])
           second == XsOf(NonEmptyPaths[2])
       IN  /\ first[Len(first)] = samples[1][ZeroIndex - 1].variable
           /\ second[1] = samples[1][ZeroIndex + 1].variable
    /\ \A i \in 1..Len(paths) : \A j \in 1..Len(paths[i].points) :
           paths[i].points[j].x # Whole(0)

DependentOffset ==
    IF dependent_axis = "y" THEN point.y.n - vertex.y.n ELSE point.x.n - vertex.x.n
IndependentOffset ==
    IF dependent_axis = "y" THEN point.x.n - vertex.x.n ELSE point.y.n - vertex.y.n

\* the JavaScript quotient of the whole numbers n and m * m
RatioToSquare(n, m) == IF m # 0 THEN Num(n, m * m) ELSE Num(n, 0)

\* C21 (as claimed): Parabola.a() returns the ratio of the offset between
\* vertex and second point along the independent axis to the square of that
\* offset along the dependent axis, for both choices of dependent_axis.
C21_AIsIndependentOverDependentSquared ==
    (pc # "parabola") => parabola_a = RatioToSquare(IndependentOffset, DependentOffset)

\* C21 (amended): Parabola.a() returns the ratio of the offset along the
\* dependent axis to the square of the offset along the independent axis.
C21_AIsDependentOverIndependentSquared ==
    (pc # "parabola") => parabola_a = RatioToSquare(DependentOffset, IndependentOffset)

C21_Witness ==
    /\ pc = "new"
    /\ dependent_axis = "y"
    /\ vertex = [x |-> Whole(0), y |-> Whole(-1)]
    /\ point = [x |-> Whole(2), y |-> Whole(2)]
    /\ parabola_a = Num(3, 4)

IndependentOf(p) == IF dependent_axis = "y" THEN p.x ELSE p.y
DependentOf(p) == IF dependent_axis = "y" THEN p.y ELSE p.x

\* C25: for a Parabola whose vertex and second point differ along the
\* independent axis, the equation built by ParabolaGraphic.draw evaluates to
\* the defined dependent coordinate of the vertex at the vertex and to the
\* defined dependent coordinate of the second point at the second point.
C25_ParabolaThroughBothPoints ==
    (pc # "parabola" /\ IndependentOf(point) # IndependentOf(vertex)) =>
        \A f \in 1..Len(samples) : \A k \in 1..Len(samples[f]) :
            LET s == samples[f][k]
            IN  /\ s.variable = IndependentOf(vertex) => s.output = DependentOf(vertex)
                /\ s.variable = IndependentOf(point) => s.output = DependentOf(point)


\* ------------------------------------------------------------- idempotence
\* every value of the substitution map is a Value (or the map is empty)
ValuesOnly(s) == \A n \in DOMAIN s : s[n] = NONE \/ s[n].k = "Value"

HasSqrt(e) == \E u \in Subterms(e) : u.k = "Sqrt"

\* C24: for every expression e and every substitution map s whose values are
\* Values (or s empty), each candidate c of e.simplify(s) satisfies
\* c.simplify(s) = [c] and contains no Sqrt node.
C24_SimplifyIsIdempotent ==
    (pc = "resimplified" /\ ValuesOnly(subs)) =>
        \A i \in 1..Len(out.seq) :
            /\ again[i] = Returns(<<out.seq[i]>>)
            /\ ~HasSqrt(out.seq[i])

C24_Witness ==
    /\ pc = "resimplified"
    /\ expr = Add(Sqrt(Value(Whole(4))), Variable("y"))
    /\ subs = NoSubstitutions
    /\ Len(out.seq) = 2
    /\ again[2] = Returns(<<Add(Value(Whole(-2)), Variable("y"))>>)


NonPositiveStepKeepsLooping ==
    (pc = "while" /\ NumLeq(start, end) /\ NumLeq(step, Whole(0))) => NumLeq(variable, end)


\* -------------------------------------------------------------- DesmosDraw
\* the ids of the control points that DesmosDraw.update updates
SelectedIds ==
    IF selected_controls = NONE THEN {}
    ELSE {selected_controls.controls[i].id : i \in 1..Len(selected_controls.controls)}

SelectedNames ==
    [i \in 1..Len(selected_controls.controls) |-> selected_controls.controls[i].name]

\* C26: every id returned by add_shape differs from every id returned
\* earlier (also after removals); the returned id is a key of shapes mapping
\* to the added shape; right after add_shape the selected controls are those
\* of the added shape.
C26_AddShapeIdsAreFresh ==
    /\ \A i \in 1..Len(returned) : \A j \in 1..Len(returned) :
           i # j => returned[i] # returned[j]
    /\ (last.op = "add_shape") =>
           /\ last.id = returned[Len(returned)]
           /\ last.id \in DOMAIN shapes
           /\ shapes[last.id] \in {NewShape(kind) : kind \in ShapeKinds}
           /\ selected_controls # NONE
           /\ selected_controls.shape = last.id
           /\ SelectedNames = ControlNames(shapes[last.id].kind)

C26_Witness ==
    /\ last.op = "add_shape"
    /\ returned = <<0, 1>>
    /\ DOMAIN shapes = {1}
    /\ selected_controls.shape = 1

\* C27: selected_controls is undefined or the control set of a shape present
\* in shapes; remove_shape(id) clears the selection for every id;
\* select_shape of an absent id leaves no selection.
C27_SelectionIsOfPresentShape ==
    /\ (selected_controls # NONE) =>
           /\ selected_controls.shape \in DOMAIN shapes
           /\ SelectedNames = ControlNames(shapes[selected_controls.shape].kind)
    /\ (last.op = "remove_shape") => selected_controls = NONE
    /\ (last.op = "select_shape" /\ last.id \notin DOMAIN shapes) => selected_controls = NONE

C27_Witness ==
    /\ last = [op |-> "remove_shape", id |-> 1]
    /\ DOMAIN shapes = {0}
    /\ returned = <<0, 1>>
    /\ selected_controls = NONE

\* C28: ControlPoint.selected is undefined or the id of a control point of
\* the current selected_controls.
C28_GrabbedControlIsSelected ==
    control_selected = NoControl \/ control_selected \in SelectedIds

\* the setter of the control with this id ran in the update that just ended,
\* with the current mouse position (its coordinate for an AxisProperty)
SetterRan(id) ==
    /\ selected_controls # NONE
    /\ \E j \in 1..Len(calls') :
           /\ calls'[j].id = id
           /\ calls'[j].argument =
                  SetterArgument(shapes[selected_controls.shape].kind, calls'[j].name,
                                 mouse_position)

\* C29: one update invokes at most one setter; once a control point is
\* grabbed, every later update invokes its setter with the current mouse
\* position until the first update with the button up, which releases it.
C29_OneSetterAndDragUntilRelease ==
    [][(last'.op = "update") =>
          /\ Len(calls') <= 1
          /\ (control_selected # NoControl) =>
                 /\ SetterRan(control_selected)
                 /\ control_selected' = IF is_down THEN control_selected ELSE NoControl]_vars

InRadius(control) ==
    NumLess(distance(ControlPosition(shapes[selected_controls.shape], control.name),
                     mouse_position),
            DEFAULT_RADIUS)

\* C22: when a shape is selected and the button is up at a frame update, a
\* later press within the radius of one of its control points followed by a
\* frame update grabs a control point under the pointer: ControlPoint.selected
\* becomes its id and its setter receives the mouse position.
C22_PressGrabsControlPoint ==
    [][(/\ last'.op = "update"
        /\ idle_frame
        /\ is_down
        /\ selected_controls # NONE
        /\ \E i \in 1..Len(selected_controls.controls) : InRadius(selected_controls.controls[i])) =>
          \E i \in 1..Len(selected_controls.controls) :
              /\ InRadius(selected_controls.controls[i])
              /\ control_selected' = selected_controls.controls[i].id
              /\ SetterRan(selected_controls.controls[i].id)]_vars


\* -------------------------------------------------------------- frame loop
\* C30: for any interleaving of resize callbacks and animation frames the
\* loop is started exactly once: after the first resize there is always
\* exactly one pending requestAnimationFrame(loop) callback, and a frame runs
\* update and then draw only when at least FRAME_TIME has passed since the
\* previous rendered frame.
C30_LoopStartedOnce ==
    /\ (resizes >= 1) => pending = 1
    /\ (resizes = 0) => pending = 0
    /\ (frame.ran # << >>) =>
           /\ frame.ran = <<"update", "draw">>
           /\ TARGET_FPS * (frame.timestamp - frame.previous) >= 1000
           /\ previous_time_ms = frame.timestamp

C30_Witness ==
    /\ resizes >= 2
    /\ pending = 1
    /\ frame.ran = <<"update", "draw">>
    /\ frame.previous > 0
    /\ frame.timestamp - frame.previous = 17

====
